---- MODULE Spec2Model ----
(***************************************************************************)
(* A model of the NF-e lakehouse pipeline (src/pipeline): the paginated,   *)
(* retrying extractor (extract.py), its year filter, the typing of a batch *)
(* (transform.py) and the partition-overwrite loader (load.py).            *)
(*                                                                         *)
(* These specifications share the module's variables:                     *)
(*   Spec        one call of get_nfe_data against a nondeterministic API   *)
(*   SpecFilter  filter_nfe_per_year applied to every bounded page         *)
(*   SpecLoad    successive calls of save_parquet_partitioned              *)
(*   SpecConcurrent  two calls of save_parquet_partitioned, interleaved    *)
(*   SpecTransform   prepare_dataframe applied to every bounded batch      *)
(*   SpecPipeline    run_pipeline: the three stages one after the other    *)
(***************************************************************************)
EXTENDS Integers, Sequences, FiniteSets, TLC

VARIABLES
    \* ---- environment and arguments of get_nfe_data
    api_url,         \* os.getenv("API_URL")
    api_key,         \* os.getenv("API_KEY")
    year_emission,   \* argument
    max_pages,       \* argument
    \* ---- locals of get_nfe_data / request_nfe
    pc,              \* "idle" | "loop" | "request" | "process" | "done"
    page_number,
    attempt_number,  \* tenacity's attempt number for the current page request
    api_response,    \* the value request_nfe returned for the current page
    all_nfe,
    result,          \* how get_nfe_data ended
    \* ---- observation of the run
    calls,           \* one entry per call of request_nfe made by get_nfe_data
    waited,          \* total time slept between attempts
    log,             \* logger records, in order
    \* ---- filter_nfe_per_year on its own
    f_pc,
    f_response,
    f_year,
    f_result,
    \* ---- save_parquet_partitioned and the object storage
    s3_env,          \* os.getenv("S3_BASE_PATH")
    store,           \* the remote directories: whether each exists, its rows
    l_pc,            \* "idle" | "partitions" | "returned" | "raised"
    l_df,            \* argument df
    l_arg,           \* argument s3_base_path
    l_base,          \* s3_base_path once resolved
    l_todo,          \* the rows of years_months still to visit
    l_checked,       \* partition paths given to isdir by this call
    l_deleted,       \* partition paths given to delete_dir_contents by this call
    l_writes,        \* calls of write_dataset by this call
    l_failed,        \* the storage operation of this call that raised, if any
    l_result,        \* how this call ended
    l_log,           \* logger records of this call
    l_before,        \* the store when this call began
    l_prev,          \* the call before this one: its arguments, end and store
    l_ncalls,        \* calls made so far
    \* ---- two calls of save_parquet_partitioned running at the same time
    c_store,         \* the remote directories they share
    c_w,             \* each call's arguments, position and years_months left
    c_trace,         \* the steps taken so far, in order: <<call, operation>>
    \* ---- prepare_dataframe on its own
    t_pc,            \* "idle" | "ready" | "done"
    t_all_nfe,       \* argument all_nfe
    t_result,        \* the table returned, or the error raised
    \* ---- run_pipeline
    p_pc,            \* "idle" | "extract" | "load" | "done"
    p_log            \* the orchestrator's logger records, in order

extractVars == <<api_url, api_key, year_emission, max_pages, pc, page_number,
                 attempt_number, api_response, all_nfe, result, calls, waited, log>>
filterVars == <<f_pc, f_response, f_year, f_result>>
loadVars == <<s3_env, store, l_pc, l_df, l_arg, l_base, l_todo, l_checked,
              l_deleted, l_writes, l_failed, l_result, l_log, l_before, l_prev,
              l_ncalls>>
concVars == <<c_store, c_w, c_trace>>
transformVars == <<t_pc, t_all_nfe, t_result>>
pipelineVars == <<p_pc, p_log>>
vars == <<extractVars, filterVars, loadVars, concVars, transformVars, pipelineVars>>

\* what the steps of one function leave alone: the state of the others
notExtract == <<filterVars, loadVars, concVars, transformVars, pipelineVars>>
notFilter == <<extractVars, loadVars, concVars, transformVars, pipelineVars>>
notLoad == <<extractVars, filterVars, concVars, transformVars, pipelineVars>>
notConc == <<extractVars, filterVars, loadVars, transformVars, pipelineVars>>
notTransform == <<extractVars, filterVars, loadVars, concVars, pipelineVars>>

(***************************************************************************)
(* Bounds of the model.                                                    *)
(***************************************************************************)
MaxPagesBound == 3   \* max_pages ranges over 0..MaxPagesBound
MaxPageLen == 3      \* longest page given to filter_nfe_per_year in SpecFilter
MaxAmountLen == 4    \* characters of a generated valorNotaFiscal text
MaxBatchLen == 2     \* records of a batch given to prepare_dataframe
MaxCalls == 2        \* successive calls of save_parquet_partitioned in SpecLoad

(***************************************************************************)
(* Program constants.                                                      *)
(***************************************************************************)
StopAfterAttempt == 3   \* stop=stop_after_attempt(3)
WaitFixed == 2          \* wait=wait_fixed(2)

(***************************************************************************)
(* Python values.                                                          *)
(* A str is a sequence of one-character strings; an Optional[str] is a     *)
(* record so that None and "" stay distinct.                               *)
(***************************************************************************)
None == [none |-> TRUE, str |-> <<>>]
Str(s) == [none |-> FALSE, str |-> s]

\* bool(v) of an Optional[str]: None and "" are falsy
Truthy(v) == ~v.none /\ Len(v.str) > 0

\* Python's  a or b
PyOr(a, b) == IF Truthy(a) THEN a ELSE b

RECURSIVE LStrip(_)
LStrip(s) == IF s # <<>> /\ Head(s) = " " THEN LStrip(Tail(s)) ELSE s

RECURSIVE RStrip(_)
RStrip(s) ==
    IF s # <<>> /\ s[Len(s)] = " " THEN RStrip(SubSeq(s, 1, Len(s) - 1)) ELSE s

\* str.strip()
Strip(s) == RStrip(LStrip(s))

\* a variant that tests  `not v`  only
MissingOrBlank_noStrip(v) == ~Truthy(v)

\* the test  `not v or v.strip() == ""`  of extract.py and load.py
MissingOrBlank(v) == ~Truthy(v) \/ Strip(v.str) = <<>>

BlankStr == Str(<<" ", " ", " ">>)
EmptyStr == Str(<<>>)
UrlStr == Str(<<"h", "t", "t", "p", ":", "/", "/", "a", "p", "i">>)
KeyStr == Str(<<" ", "k", "e", "y">>)

EnvValues(good) == {None, EmptyStr, BlankStr, good}

(***************************************************************************)
(* Invoice records and dates.                                              *)
(* The text "dd/mm/yyyy" is the triple of the numbers it spells; a text    *)
(* of another shape is a tuple of another length.                          *)
(***************************************************************************)
IsLeap(y) == (y % 4 = 0 /\ y % 100 # 0) \/ y % 400 = 0

DaysInMonth(m, y) ==
    IF m = 2 THEN (IF IsLeap(y) THEN 29 ELSE 28)
    ELSE IF m \in {4, 6, 9, 11} THEN 30 ELSE 31

\* datetime.strptime(text, "%d/%m/%Y"): the date, or ValueError
Strptime(text) ==
    IF /\ Len(text) = 3
       /\ text[3] \in 1..9999
       /\ text[2] \in 1..12
       /\ text[1] \in 1..DaysInMonth(text[2], text[3])
    THEN [ok |-> TRUE, day |-> text[1], month |-> text[2], year |-> text[3]]
    ELSE [ok |-> FALSE, day |-> 0, month |-> 0, year |-> 0]

Nfe(i, d) == [id |-> i, dataEmissao |-> d]
NfeNoDate(i) == [id |-> i]

\* the fixture of tests/unit/test_extract.py
nfe_2025 == <<Nfe(1, <<1, 1, 2025>>), Nfe(2, <<15, 2, 2025>>)>>
nfe_2024 == <<Nfe(3, <<31, 12, 2024>>)>>
mixed_nfe == nfe_2025 \o nfe_2024

\* a record without the dataEmissao key, one with an impossible date
nfe_no_date == NfeNoDate(4)
nfe_malformed == Nfe(5, <<99, 99, 9999>>)
page_no_date == <<nfe_no_date, Nfe(1, <<1, 1, 2025>>)>>
page_malformed == <<Nfe(1, <<1, 1, 2025>>), nfe_malformed, Nfe(2, <<15, 2, 2025>>)>>

NfeRecords ==
    {Nfe(1, <<1, 1, 2025>>), Nfe(2, <<15, 2, 2025>>), Nfe(3, <<31, 12, 2024>>),
     nfe_no_date, nfe_malformed, Nfe(6, <<29, 2, 2025>>)}

\* what the remote API may answer for a page
ApiPages == {<<>>, mixed_nfe, nfe_2024, nfe_2025, page_no_date, page_malformed}

Years == {2024, 2025, 2100}

\* the years asked of get_nfe_data
ExtractYears == {2024, 2025}

RECURSIVE SeqsUpTo(_, _)
SeqsUpTo(S, n) ==
    IF n = 0 THEN {<<>>}
    ELSE LET shorter == SeqsUpTo(S, n - 1)
         IN shorter \cup {Append(s, x) : s \in {t \in shorter : Len(t) = n - 1}, x \in S}

(***************************************************************************)
(* filter_nfe_per_year: the list comprehension, record by record. The      *)
(* first record whose dataEmissao does not parse raises ValueError out of  *)
(* the comprehension.                                                      *)
(***************************************************************************)
\* the record makes strptime raise
RaisesOnDate(nfe) ==
    "dataEmissao" \in DOMAIN nfe /\ ~Strptime(nfe.dataEmissao).ok

\* a variant that keeps a dated record of any year
KeepsNfe_anyYear(nfe, year) == "dataEmissao" \in DOMAIN nfe

\* the comprehension's condition, for a record strptime accepts
KeepsNfe(nfe, year) ==
    "dataEmissao" \in DOMAIN nfe /\ Strptime(nfe.dataEmissao).year = year

RECURSIVE FilterFrom(_, _, _)
FilterFrom(api_resp, year, acc) ==
    IF api_resp = <<>> THEN [raised |-> FALSE, value |-> acc]
    ELSE IF RaisesOnDate(Head(api_resp)) THEN [raised |-> TRUE, value |-> <<>>]
    ELSE FilterFrom(Tail(api_resp), year,
                    IF KeepsNfe(Head(api_resp), year)
                    THEN Append(acc, Head(api_resp)) ELSE acc)

filter_nfe_per_year(api_resp, year) == FilterFrom(api_resp, year, <<>>)

(***************************************************************************)
(* request_nfe under its @retry decorator.                                 *)
(***************************************************************************)
\* the exception classes that derive from requests.exceptions.RequestException:
\* requests.get failing to connect, raise_for_status on a non-2xx status
RequestExceptions == {"ConnectionError", "HTTPError"}

\* a variant that retries whatever is raised
RetryIf_anyException(exc) == TRUE

\* retry=retry_if_exception_type(requests.exceptions.RequestException)
RetryIf(exc) == exc \in RequestExceptions

\* a variant that allows one attempt more
StopNow_oneMore(attempt) == attempt >= StopAfterAttempt + 1

\* stop=stop_after_attempt(3)
StopNow(attempt) == attempt >= StopAfterAttempt

\* the configuration tests at the head of request_nfe; get_nfe_data passes
\* neither api_url nor api_key, so both come from the environment
ConfigCheck(url, key) ==
    IF MissingOrBlank(PyOr(None, url)) THEN "API_URL ausente."
    ELSE IF MissingOrBlank(PyOr(None, key)) THEN "API_KEY ausente."
    ELSE "ok"

Running == [status |-> "running", value |-> <<>>, exc |-> "none"]
Returned(v) == [status |-> "returned", value |-> v, exc |-> "none"]
Raised(e) == [status |-> "raised", value |-> <<>>, exc |-> e]

NewCall(p) ==
    [page |-> p, attempts |-> 0, requests |-> 0, failures |-> 0,
     outcome |-> "pending", exc |-> "none", response |-> <<>>]

LastCall == calls[Len(calls)]

\* a variant whose handler lets the error out of get_nfe_data
OnPageError_reraise(e) == Raised(e)

\* except Exception as e: logger.error(...); break -- then the return all_nfe
\* that follows the loop
OnPageError(e) == Returned(all_nfe)

ExceptHandler(e) ==
    /\ pc' = "done"
    /\ result' = OnPageError(e)
    /\ log' = log \o <<"error: page request", "info: collected">>

\* The body of request_nfe raised `exc` after `net` network requests: tenacity
\* re-raises what it does not retry, sleeps and tries again, or gives up with
\* RetryError; whatever leaves request_nfe lands in get_nfe_data's handler.
AttemptRaises(exc, net) ==
    LET c == [LastCall EXCEPT !.attempts = @ + 1, !.requests = @ + net,
                              !.failures = @ + (IF exc \in RequestExceptions THEN 1 ELSE 0),
                              !.exc = exc]
    IN IF RetryIf(exc) /\ ~StopNow(attempt_number)
       THEN /\ attempt_number' = attempt_number + 1
            /\ waited' = waited + WaitFixed
            /\ calls' = [calls EXCEPT ![Len(calls)] = c]
            /\ UNCHANGED <<pc, result, log>>
       ELSE LET e == IF RetryIf(exc) THEN "RetryError" ELSE exc
            IN /\ calls' = [calls EXCEPT ![Len(calls)] = [c EXCEPT !.outcome = e]]
               /\ ExceptHandler(e)
               /\ UNCHANGED <<attempt_number, waited>>

(***************************************************************************)
(* get_nfe_data, one step per iteration test, per attempt of the page      *)
(* request, and per processing of a returned page.                         *)
(***************************************************************************)
ExtractInputs == <<api_url, api_key, year_emission, max_pages>>

\* a variant that lets one page more through
OverLimit_offByOne(page, limit) == page > limit + 1

\* if page_number > max_pages
OverLimit(page, limit) == page > limit

\* while True: if page_number > max_pages: logger.warning(...); break
PageLimitReached ==
    /\ pc = "loop"
    /\ OverLimit(page_number, max_pages)
    /\ pc' = "done"
    /\ result' = Returned(all_nfe)
    /\ log' = log \o <<"warning: page limit", "info: collected">>
    /\ UNCHANGED <<ExtractInputs, page_number, attempt_number, api_response,
                   all_nfe, calls, waited>>
    /\ UNCHANGED notExtract

\* api_response = request_nfe(organ_code=..., page_number=page_number): the call
BeginRequest ==
    /\ pc = "loop"
    /\ ~OverLimit(page_number, max_pages)
    /\ pc' = "request"
    /\ attempt_number' = 1
    /\ calls' = Append(calls, NewCall(page_number))
    /\ UNCHANGED <<ExtractInputs, page_number, api_response, all_nfe, result,
                   waited, log>>
    /\ UNCHANGED notExtract

\* an attempt that stops at the configuration tests: no network request
AttemptConfigError ==
    /\ pc = "request"
    /\ ConfigCheck(api_url, api_key) # "ok"
    /\ AttemptRaises("MissingAPIConfigError", 0)
    /\ UNCHANGED <<ExtractInputs, page_number, api_response, all_nfe>>
    /\ UNCHANGED notExtract

\* requests.get or raise_for_status raises a RequestException
AttemptTransportError ==
    /\ pc = "request"
    /\ ConfigCheck(api_url, api_key) = "ok"
    /\ \E exc \in RequestExceptions : AttemptRaises(exc, 1)
    /\ UNCHANGED <<ExtractInputs, page_number, api_response, all_nfe>>
    /\ UNCHANGED notExtract

\* the attempt raises something that is no RequestException
AttemptOtherError ==
    /\ pc = "request"
    /\ ConfigCheck(api_url, api_key) = "ok"
    /\ AttemptRaises("Exception", 1)
    /\ UNCHANGED <<ExtractInputs, page_number, api_response, all_nfe>>
    /\ UNCHANGED notExtract

\* return response.json()
AttemptSuccess ==
    /\ pc = "request"
    /\ ConfigCheck(api_url, api_key) = "ok"
    /\ \E page \in ApiPages :
          /\ api_response' = page
          /\ calls' = [calls EXCEPT ![Len(calls)] =
                         [@ EXCEPT !.attempts = @ + 1, !.requests = @ + 1,
                                   !.outcome = "ok", !.response = page]]
    /\ pc' = "process"
    /\ UNCHANGED <<ExtractInputs, page_number, attempt_number, all_nfe, result,
                   waited, log>>
    /\ UNCHANGED notExtract

\* a variant that never takes a page for the end of the data
IsEmptyPage_never(resp) == FALSE

\* if not api_response
IsEmptyPage(resp) == resp = <<>>

\* if not api_response: logger.info(...); break
ProcessEmptyPage ==
    /\ pc = "process"
    /\ IsEmptyPage(api_response)
    /\ pc' = "done"
    /\ result' = Returned(all_nfe)
    /\ log' = log \o <<"info: empty page", "info: collected">>
    /\ UNCHANGED <<ExtractInputs, page_number, attempt_number, api_response,
                   all_nfe, calls, waited>>
    /\ UNCHANGED notExtract

\* filter_nfe_per_year raises inside the try block
ProcessPageFilterRaises ==
    /\ pc = "process"
    /\ ~IsEmptyPage(api_response)
    /\ filter_nfe_per_year(api_response, year_emission).raised
    /\ ExceptHandler("ValueError")
    /\ UNCHANGED <<ExtractInputs, page_number, attempt_number, api_response,
                   all_nfe, calls, waited>>
    /\ UNCHANGED notExtract

\* a variant that skips a page number
NextPage_skip(page) == page + 2

\* page_number += 1
NextPage(page) == page + 1

\* all_nfe.extend(filtered_nfe)
Extend(acc, filtered) == acc \o filtered

\* all_nfe.extend(filtered_nfe); logger.info(...); page_number += 1
ProcessPageOk ==
    /\ pc = "process"
    /\ ~IsEmptyPage(api_response)
    /\ LET f == filter_nfe_per_year(api_response, year_emission)
       IN /\ ~f.raised
          /\ all_nfe' = Extend(all_nfe, f.value)
    /\ page_number' = NextPage(page_number)
    /\ pc' = "loop"
    /\ log' = Append(log, "info: page")
    /\ UNCHANGED <<ExtractInputs, attempt_number, api_response, result, calls,
                   waited>>
    /\ UNCHANGED notExtract

(***************************************************************************)
(* save_parquet_partitioned and the object storage it talks to.            *)
(*                                                                         *)
(* A table is the sequence of its rows; only id, ano and mes matter here.  *)
(* The storage is a map from directory to whether it exists and the rows   *)
(* its files hold. write_dataset adds the rows of each (ano, mes) to the   *)
(* directory of that partition, next to what is there already, and the     *)
(* directory of partition (Y, M) is the partition_path the loop computes.  *)
(***************************************************************************)
\* a null ano or mes (NaN after .dt.year / .dt.month of NaT)
NaN == 0

Row(i, y, m) == [id |-> i, ano |-> y, mes |-> m]

KeyOf(row) == <<row.ano, row.mes>>

IsNullKey(k) == k[1] = NaN \/ k[2] = NaN

PathA == Str(<<"s", "3", ":", "/", "/", "a">>)
PathB == Str(<<"s", "3", ":", "/", "/", "b">>)
BasePaths == {PathA, PathB}

PartitionKeys == {<<2024, 6>>, <<2024, 7>>, <<2024, 12>>, <<NaN, NaN>>, <<2024, NaN>>}

\* f"{s3_base_path}/ano={int(row['ano'])}/mes={int(row['mes'])}"
PartitionPath(base, k) == <<base, k>>

Dirs == {PartitionPath(b, k) : b \in BasePaths, k \in PartitionKeys}

AbsentDir == [exists |-> FALSE, rows |-> <<>>]

\* rows left in a partition by an earlier run
OldRows(k) == <<Row(90 + k[2], k[1], k[2])>>

df_empty == <<>>
df_one == <<Row(1, 2024, 6)>>
df_two == <<Row(1, 2024, 6), Row(2, 2024, 7), Row(3, 2024, 6)>>
df_null == <<Row(4, NaN, NaN), Row(2, 2024, 7)>>
df_half_null == <<Row(5, 2024, NaN), Row(1, 2024, 6)>>

Tables == {df_empty, df_one, df_two, df_null, df_half_null}

RECURSIVE KeysFrom(_)
\* df[["ano", "mes"]]
KeysFrom(df) == IF df = <<>> THEN <<>> ELSE <<KeyOf(Head(df))>> \o KeysFrom(Tail(df))

\* .dropna()
DropNa(keys) == SelectSeq(keys, LAMBDA k : ~IsNullKey(k))

\* a variant that keeps repeated (ano, mes) rows
DropDuplicates_keepAll(keys) == keys

RECURSIVE DropDuplicates(_)
\* .drop_duplicates(): the first occurrence of each row is kept
DropDuplicates(keys) ==
    IF keys = <<>> THEN <<>>
    ELSE LET init == DropDuplicates(SubSeq(keys, 1, Len(keys) - 1))
             last == keys[Len(keys)]
         IN IF \E j \in 1..Len(init) : init[j] = last THEN init ELSE Append(init, last)

\* years_months = df[["ano", "mes"]].dropna().drop_duplicates()
YearsMonths(df) == DropDuplicates(DropNa(KeysFrom(df)))

\* s3_fs.isdir(partition_path)
\* a variant that finds no directory
IsDir_never(st, path) == FALSE

IsDir(st, path) == st[path].exists

\* a variant that leaves the directory's files in place
DeleteDirContents_nothing(st, path) == st

\* s3_fs.delete_dir_contents(partition_path): the directory stays, empty
DeleteDirContents(st, path) == [st EXCEPT ![path].rows = <<>>]

\* a variant that keeps one row of each partition only
RowsOfKey_first(df, k) ==
    IF SelectSeq(df, LAMBDA row : KeyOf(row) = k) = <<>> THEN <<>>
    ELSE <<Head(SelectSeq(df, LAMBDA row : KeyOf(row) = k))>>

\* the rows of the table that partitioning=["ano", "mes"] puts in partition k
RowsOfKey(df, k) == SelectSeq(df, LAMBDA row : KeyOf(row) = k)

KeySet(df) == {KeyOf(df[j]) : j \in 1..Len(df)}

\* the rows of df of the partitions in K, written under base
WritePartitions(st, base, df, K) ==
    [d \in Dirs |->
        IF d[1] = base /\ d[2] \in K
        THEN [exists |-> TRUE, rows |-> st[d].rows \o RowsOfKey(df, d[2])]
        ELSE st[d]]

\* a variant that replaces what the directories of the table's partitions hold
WriteDataset_replace(st, base, df) ==
    [d \in Dirs |->
        IF d[1] = base /\ d[2] \in KeySet(df)
        THEN [exists |-> TRUE, rows |-> RowsOfKey(df, d[2])]
        ELSE st[d]]

\* ds.write_dataset(data=table, base_dir=s3_base_path, format="parquet",
\*                  partitioning=["ano", "mes"], filesystem=s3_fs)
WriteDataset(st, base, df) == WritePartitions(st, base, df, KeySet(df))

\* except Exception as e: ... raise LoadError(f"Falha ao salvar dados no S3: {e}")
WrapError_propagate(e) == e

WrapError(e) == "LoadError"

\* a variant for which no table is empty
IsEmptyDf_never(df) == FALSE

\* df.empty
IsEmptyDf(df) == df = <<>>

\* a variant that looks at the table before the path
EarlyExit_emptyFirst(base, df) ==
    IF IsEmptyDf(df) THEN "empty table"
    ELSE IF MissingOrBlank(base) THEN "missing path" ELSE "none"

\* the two tests ahead of the try block, in the order of the code
EarlyExit(base, df) ==
    IF MissingOrBlank(base) THEN "missing path"
    ELSE IF IsEmptyDf(df) THEN "empty table" ELSE "none"

NoCall == [df |-> <<>>, base |-> None, result |-> Running, after |-> <<>>]

LoadFinished == l_pc \in {"idle", "returned", "raised"}

\* the call that has just ended, as the next call will remember it
ThisCall == [df |-> l_df, base |-> l_base, result |-> l_result, after |-> store]

\* a new call begins: what every entry of the function resets
\* the storage operations of the try block
StorageOps == {"S3FileSystem", "isdir", "delete_dir_contents", "write_dataset"}

EnterLoad(df, arg, op) ==
    /\ LoadFinished
    /\ l_ncalls < MaxCalls
    /\ l_ncalls' = l_ncalls + 1
    /\ l_prev' = IF l_pc = "idle" THEN NoCall ELSE ThisCall
    /\ l_before' = store
    /\ l_df' = df
    /\ l_arg' = arg
    /\ l_base' = PyOr(arg, s3_env)
    /\ l_checked' = <<>>
    /\ l_deleted' = <<>>
    /\ l_writes' = 0
    /\ l_failed' = IF op \in StorageOps THEN op ELSE "none"

\* s3_base_path = s3_base_path or os.getenv("S3_BASE_PATH")
\* if not s3_base_path or s3_base_path.strip() == "": raise MissingS3PathError
MissingPathExit(df, arg) ==
    /\ EnterLoad(df, arg, "none")
    /\ EarlyExit(PyOr(arg, s3_env), df) = "missing path"
    /\ l_pc' = "raised"
    /\ l_result' = Raised("MissingS3PathError")
    /\ l_log' = <<"error: s3_base_path">>
    /\ l_todo' = <<>>
    /\ UNCHANGED <<s3_env, store>>
    /\ UNCHANGED notLoad

LoadMissingPath == \E df \in Tables, arg \in EnvValues(PathA) : MissingPathExit(df, arg)

\* if df.empty: logger.warning(...); return
LoadEmptyTable ==
    /\ \E df \in Tables, arg \in EnvValues(PathA) :
          /\ EnterLoad(df, arg, "none")
          /\ EarlyExit(PyOr(arg, s3_env), df) = "empty table"
    /\ l_pc' = "returned"
    /\ l_result' = Returned(<<>>)
    /\ l_log' = <<"warning: empty df">>
    /\ l_todo' = <<>>
    /\ UNCHANGED <<s3_env, store>>
    /\ UNCHANGED notLoad

\* s3_fs = S3FileSystem(); years_months = ...
BeginPartitions(df, arg) ==
    /\ EnterLoad(df, arg, "none")
    /\ EarlyExit(PyOr(arg, s3_env), df) = "none"
    /\ l_todo' = YearsMonths(df)
    /\ l_pc' = "partitions"
    /\ l_result' = Running
    /\ l_log' = <<>>
    /\ UNCHANGED <<s3_env, store>>
    /\ UNCHANGED notLoad

LoadBegin == \E df \in Tables, arg \in EnvValues(PathA) : BeginPartitions(df, arg)

\* s3_fs = S3FileSystem() raises inside the try block
FileSystemFails(df, arg) ==
    /\ EnterLoad(df, arg, "S3FileSystem")
    /\ EarlyExit(PyOr(arg, s3_env), df) = "none"
    /\ l_pc' = "raised"
    /\ l_result' = Raised(WrapError("OSError"))
    /\ l_log' = <<"error: load">>
    /\ l_todo' = <<>>
    /\ UNCHANGED <<s3_env, store>>
    /\ UNCHANGED notLoad

LoadFileSystemFails == \E df \in Tables, arg \in EnvValues(PathA) : FileSystemFails(df, arg)

LoadCallFrame == <<s3_env, l_df, l_arg, l_base, l_before, l_prev, l_ncalls>>

\* except Exception as e: logger.error(...); raise LoadError(...)
LoadFails(op) ==
    /\ l_failed' = op
    /\ l_pc' = "raised"
    /\ l_result' = Raised(WrapError("OSError"))
    /\ l_log' = Append(l_log, "error: load")

\* one iteration of the loop whose partition_path is a directory:
\* s3_fs.delete_dir_contents(partition_path); logger.info(...)
LoadCleanPartition ==
    /\ l_pc = "partitions"
    /\ l_todo # <<>>
    /\ LET path == PartitionPath(l_base, Head(l_todo))
       IN /\ IsDir(store, path)
          /\ store' = DeleteDirContents(store, path)
          /\ l_checked' = Append(l_checked, path)
          /\ l_deleted' = Append(l_deleted, path)
    /\ l_todo' = Tail(l_todo)
    /\ l_log' = Append(l_log, "info: partition cleaned")
    /\ UNCHANGED <<LoadCallFrame, l_pc, l_writes, l_failed, l_result>>
    /\ UNCHANGED notLoad

\* one iteration of the loop whose partition_path is no directory
LoadSkipPartition ==
    /\ l_pc = "partitions"
    /\ l_todo # <<>>
    /\ LET path == PartitionPath(l_base, Head(l_todo))
       IN /\ ~IsDir(store, path)
          /\ l_checked' = Append(l_checked, path)
    /\ l_todo' = Tail(l_todo)
    /\ UNCHANGED <<LoadCallFrame, store, l_pc, l_deleted, l_writes, l_failed,
                   l_result, l_log>>
    /\ UNCHANGED notLoad

\* s3_fs.isdir raises
LoadIsDirFails ==
    /\ l_pc = "partitions"
    /\ l_todo # <<>>
    /\ l_checked' = Append(l_checked, PartitionPath(l_base, Head(l_todo)))
    /\ LoadFails("isdir")
    /\ UNCHANGED <<LoadCallFrame, store, l_todo, l_deleted, l_writes>>
    /\ UNCHANGED notLoad

\* s3_fs.delete_dir_contents raises, having removed some of the files
LoadDeleteFails ==
    /\ l_pc = "partitions"
    /\ l_todo # <<>>
    /\ LET path == PartitionPath(l_base, Head(l_todo))
       IN /\ IsDir(store, path)
          /\ \E j \in 1..(Len(store[path].rows) + 1) :
                store' = [store EXCEPT ![path].rows = SubSeq(@, j, Len(@))]
          /\ l_checked' = Append(l_checked, path)
          /\ l_deleted' = Append(l_deleted, path)
    /\ LoadFails("delete_dir_contents")
    /\ UNCHANGED <<LoadCallFrame, l_todo, l_writes>>
    /\ UNCHANGED notLoad

\* table = pa.Table.from_pandas(df); ds.write_dataset(...); logger.info(...)
LoadWrite ==
    /\ l_pc = "partitions"
    /\ l_todo = <<>>
    /\ store' = WriteDataset(store, l_base, l_df)
    /\ l_writes' = l_writes + 1
    /\ l_pc' = "returned"
    /\ l_result' = Returned(<<>>)
    /\ l_log' = Append(l_log, "info: written")
    /\ UNCHANGED <<LoadCallFrame, l_todo, l_checked, l_deleted, l_failed>>
    /\ UNCHANGED notLoad

\* ds.write_dataset raises, having written the files of some partitions only
LoadWriteFails ==
    /\ l_pc = "partitions"
    /\ l_todo = <<>>
    /\ \E K \in (SUBSET KeySet(l_df)) \ {KeySet(l_df)} :
          store' = WritePartitions(store, l_base, l_df, K)
    /\ l_writes' = l_writes + 1
    /\ LoadFails("write_dataset")
    /\ UNCHANGED <<LoadCallFrame, l_todo, l_checked, l_deleted>>
    /\ UNCHANGED notLoad

EmptyStore == [d \in Dirs |-> AbsentDir]

LoadIdle ==
    /\ s3_env = None
    /\ store = EmptyStore
    /\ l_pc = "idle"
    /\ l_df = <<>>
    /\ l_arg = None
    /\ l_base = None
    /\ l_todo = <<>>
    /\ l_checked = <<>>
    /\ l_deleted = <<>>
    /\ l_writes = 0
    /\ l_failed = "none"
    /\ l_result = Running
    /\ l_log = <<>>
    /\ l_before = EmptyStore
    /\ l_prev = NoCall
    /\ l_ncalls = 0

(***************************************************************************)
(* Two calls of save_parquet_partitioned at the same time, each with a     *)
(* valid path and a table of some rows. Every call of the storage (isdir,  *)
(* delete_dir_contents, write_dataset) is one step; nothing orders the     *)
(* steps of one call against those of the other.                           *)
(***************************************************************************)
Writers == {1, 2}

ConcTables == {df_one, df_two, df_null}

WriterIdle == [pc |-> "idle", df |-> <<>>, base |-> None, todo |-> <<>>]

\* the call is entered: path resolved, df not empty, S3FileSystem() built,
\* years_months = df[["ano", "mes"]].dropna().drop_duplicates()
ConcBegin(w) ==
    /\ c_w[w].pc = "idle"
    /\ \E df \in ConcTables, base \in BasePaths :
          c_w' = [c_w EXCEPT ![w] = [pc |-> "loop", df |-> df, base |-> base,
                                     todo |-> YearsMonths(df)]]
    /\ c_trace' = Append(c_trace, <<w, "begin">>)
    /\ UNCHANGED c_store
    /\ UNCHANGED notConc

\* if s3_fs.isdir(partition_path):
ConcIsDir(w) ==
    /\ c_w[w].pc = "loop"
    /\ c_w[w].todo # <<>>
    /\ LET path == PartitionPath(c_w[w].base, Head(c_w[w].todo))
       IN c_w' = IF IsDir(c_store, path)
                 THEN [c_w EXCEPT ![w].pc = "delete"]
                 ELSE [c_w EXCEPT ![w].todo = Tail(@)]
    /\ c_trace' = Append(c_trace, <<w, "isdir">>)
    /\ UNCHANGED c_store
    /\ UNCHANGED notConc

\* s3_fs.delete_dir_contents(partition_path); logger.info(...)
ConcDelete(w) ==
    /\ c_w[w].pc = "delete"
    /\ c_store' = DeleteDirContents(c_store, PartitionPath(c_w[w].base, Head(c_w[w].todo)))
    /\ c_w' = [c_w EXCEPT ![w].pc = "loop", ![w].todo = Tail(@)]
    /\ c_trace' = Append(c_trace, <<w, "delete_dir_contents">>)
    /\ UNCHANGED notConc

\* table = pa.Table.from_pandas(df); ds.write_dataset(...); logger.info(...)
ConcWrite(w) ==
    /\ c_w[w].pc = "loop"
    /\ c_w[w].todo = <<>>
    /\ c_store' = WriteDataset(c_store, c_w[w].base, c_w[w].df)
    /\ c_w' = [c_w EXCEPT ![w].pc = "returned"]
    /\ c_trace' = Append(c_trace, <<w, "write_dataset">>)
    /\ UNCHANGED notConc

ConcIdle ==
    /\ c_store = EmptyStore
    /\ c_w = [w \in Writers |-> WriterIdle]
    /\ c_trace = <<>>

(***************************************************************************)
(* prepare_dataframe: the batch of records becomes a typed table or the    *)
(* whole call fails.                                                       *)
(*                                                                         *)
(* A record keeps the fields whose conversion can fail or be null: id and  *)
(* numero (astype int64; serie is converted like numero), valorNotaFiscal, *)
(* dataEmissao and dataTipoEventoMaisRecente. The text of an amount is the *)
(* sequence of its characters; texts with a sign, an exponent, blanks,     *)
(* "inf" or "nan" are not among those considered. A float is the decimal   *)
(* number its text spells: num / 10^scale with no trailing zero in scale.  *)
(***************************************************************************)
Digits == {"0", "1", "2", "3", "4", "5", "6", "7", "8", "9"}

DigitVal(c) ==
    CASE c = "0" -> 0 [] c = "1" -> 1 [] c = "2" -> 2 [] c = "3" -> 3
      [] c = "4" -> 4 [] c = "5" -> 5 [] c = "6" -> 6 [] c = "7" -> 7
      [] c = "8" -> 8 [] c = "9" -> 9

IsDigit(c) == c \in Digits

AllDigits(s) == \A i \in 1..Len(s) : IsDigit(s[i])

RECURSIVE DigitsToNat(_)
DigitsToNat(s) ==
    IF s = <<>> THEN 0
    ELSE DigitsToNat(SubSeq(s, 1, Len(s) - 1)) * 10 + DigitVal(s[Len(s)])

RECURSIVE Dec(_, _)
Dec(num, scale) ==
    IF scale > 0 /\ num % 10 = 0 THEN Dec(num \div 10, scale - 1)
    ELSE [num |-> num, scale |-> scale]

\* a variant that replaces the first occurrence only
StrReplace_first(s, old, new) ==
    IF \E i \in 1..Len(s) : s[i] = old
    THEN LET i == CHOOSE k \in 1..Len(s) :
                     s[k] = old /\ \A j \in 1..(k - 1) : s[j] # old
         IN SubSeq(s, 1, i - 1) \o new \o SubSeq(s, i + 1, Len(s))
    ELSE s

RECURSIVE StrReplace(_, _, _)
\* .str.replace(old, new, regex=False): every occurrence of the character
StrReplace(s, old, new) ==
    IF s = <<>> THEN <<>>
    ELSE (IF Head(s) = old THEN new ELSE <<Head(s)>>) \o StrReplace(Tail(s), old, new)

NotAFloat == [ok |-> FALSE, value |-> Dec(0, 0)]

\* float(text) as .astype(float) applies it: digits with at most one "." and
\* a digit on one side of it at least, or ValueError
ParseFloat(s) ==
    LET dots == {i \in 1..Len(s) : s[i] = "."}
    IN IF Cardinality(dots) > 1 THEN NotAFloat
       ELSE LET p == IF dots = {} THEN Len(s) + 1 ELSE CHOOSE i \in dots : TRUE
                int == SubSeq(s, 1, p - 1)
                frac == IF p >= Len(s) THEN <<>> ELSE SubSeq(s, p + 1, Len(s))
            IN IF AllDigits(int) /\ AllDigits(frac) /\ Len(int) + Len(frac) > 0
               THEN [ok |-> TRUE, value |-> Dec(DigitsToNat(int \o frac), Len(frac))]
               ELSE NotAFloat

\* df["valorNotaFiscal"].str.replace(".", "").str.replace(",", ".").astype(float)
AmountToFloat(text) ==
    ParseFloat(StrReplace(StrReplace(text, ".", <<>>), ",", <<".">>))

\* the Python values a JSON number, string or null becomes
PyInt(n) == [t |-> "int", n |-> n, s |-> <<>>]
PyStr(s) == [t |-> "str", n |-> 0, s |-> s]
PyNone == [t |-> "NoneType", n |-> 0, s |-> <<>>]

\* one element under .astype("int64"): int(v), or the error it raises
IntOf(v) ==
    IF v.t = "int" THEN [ok |-> TRUE, n |-> v.n, exc |-> "none"]
    ELSE IF v.t = "str"
         THEN IF v.s # <<>> /\ AllDigits(v.s)
              THEN [ok |-> TRUE, n |-> DigitsToNat(v.s), exc |-> "none"]
              ELSE [ok |-> FALSE, n |-> 0, exc |-> "ValueError"]
         ELSE [ok |-> FALSE, n |-> 0, exc |-> "TypeError"]

NaT == [nat |-> TRUE, year |-> 0, month |-> 0, day |-> 0, time |-> <<0, 0, 0>>]

Timestamp(y, m, d, hms) ==
    [nat |-> FALSE, year |-> y, month |-> m, day |-> d, time |-> hms]

\* a variant that turns a text that does not parse into the epoch
ToDatetime_epoch(text) ==
    IF Strptime(text).ok
    THEN Timestamp(Strptime(text).year, Strptime(text).month, Strptime(text).day, <<0, 0, 0>>)
    ELSE Timestamp(1970, 1, 1, <<0, 0, 0>>)

\* pd.to_datetime(text, format="%d/%m/%Y", errors="coerce")
ToDatetime(text) ==
    IF Strptime(text).ok
    THEN Timestamp(Strptime(text).year, Strptime(text).month, Strptime(text).day, <<0, 0, 0>>)
    ELSE NaT

\* the text "dd/mm/yyyy HH:MM:SS" is the 6-tuple of the numbers it spells
ParsesAsEvent(text) ==
    /\ Len(text) = 6
    /\ Strptime(SubSeq(text, 1, 3)).ok
    /\ text[4] \in 0..23 /\ text[5] \in 0..59 /\ text[6] \in 0..59

\* pd.to_datetime(text, format="%d/%m/%Y %H:%M:%S", errors="coerce")
ToDatetimeEvent(text) ==
    IF ParsesAsEvent(text)
    THEN Timestamp(text[3], text[2], text[1], SubSeq(text, 4, 6))
    ELSE NaT

\* df["dataEmissao"].dt.year, .dt.month: NaN for NaT
DtYear(ts) == IF ts.nat THEN NaN ELSE ts.year
DtMonth(ts) == IF ts.nat THEN NaN ELSE ts.month

NfeRecord(id, numero, valor, emissao, evento) ==
    [id |-> id, numero |-> numero, valorNotaFiscal |-> valor,
     dataEmissao |-> emissao, dataTipoEventoMaisRecente |-> evento]

\* the fixture of tests/unit/test_transform.py and the values its tests put in
valor_fixture == <<"1", ".", "2", "3", "4", ",", "5", "6">>
invalid_value == <<"i", "n", "v", "a", "l", "i", "d", "_", "v", "a", "l", "u", "e">>
mock_nfe_data ==
    NfeRecord(PyInt(1), PyInt(100), valor_fixture, <<15, 6, 2024>>, <<16, 6, 2024, 10, 30, 0>>)

\* amounts the specification names: "1234.56", "abc", and one with two "."
valor_point_decimal == <<"1", "2", "3", "4", ".", "5", "6">>
valor_abc == <<"a", "b", "c">>
valor_millions == <<"1", ".", "2", "3", "4", ".", "5", "6", "7", ",", "8", "9">>

AmountAlphabet == {"0", "1", ".", ",", "x"}

\* every text of at most n characters of the alphabet, and the named ones
AmountTexts(n) ==
    UNION {[1..k -> AmountAlphabet] : k \in 0..n}
       \cup {valor_fixture, invalid_value, valor_point_decimal, valor_abc, valor_millions}

DateTexts == {<<15, 6, 2024>>, <<1, 1, 2025>>, <<29, 2, 2025>>, <<99, 99, 9999>>}
EventTexts == {<<16, 6, 2024, 10, 30, 0>>, <<99, 99, 9999, 99, 99, 99>>, <<16, 6, 2024>>}
IntValues == {PyInt(1), PyStr(<<"7">>), PyStr(<<"x">>), PyNone}

\* the fixture with one field, or both dates, or both integers, changed
TransformRecords(len) ==
    {[mock_nfe_data EXCEPT !.valorNotaFiscal = a] : a \in AmountTexts(len)}
       \cup {[mock_nfe_data EXCEPT !.dataEmissao = d, !.dataTipoEventoMaisRecente = e] :
                d \in DateTexts, e \in EventTexts}
       \cup {[mock_nfe_data EXCEPT !.id = i, !.numero = j] : i, j \in IntValues}

\* the records that go with the varied one in a batch
CompanionRecords ==
    {mock_nfe_data,
     [mock_nfe_data EXCEPT !.id = PyInt(2), !.valorNotaFiscal = invalid_value],
     [mock_nfe_data EXCEPT !.id = PyInt(3), !.dataEmissao = <<99, 99, 9999>>]}

InsertAt(f, i, r) == SubSeq(f, 1, i - 1) \o <<r>> \o SubSeq(f, i, Len(f))

\* the companions of a batch of at most n records
Companions(n) == SeqsUpTo(CompanionRecords, n - 1)

\* class DataTransformationError(Exception); the built-in classes it meets
Mro(cls) ==
    CASE cls = "DataTransformationError" -> {"DataTransformationError", "Exception", "BaseException"}
      [] cls = "ValueError" -> {"ValueError", "Exception", "BaseException"}
      [] cls = "TypeError" -> {"TypeError", "Exception", "BaseException"}
      [] OTHER -> {cls}

\* isinstance(exc, cls)
IsInstance(exc, cls) == cls \in Mro(exc)

TransformPending == [status |-> "running", exc |-> "none", cause |-> "none", rows |-> <<>>]

\* return df
TransformReturns(rows) == [status |-> "returned", exc |-> "none", cause |-> "none", rows |-> rows]

\* except Exception as e: logger.error(...); raise DataTransformationError(f"...{e}")
TransformFails(e) ==
    [status |-> "raised", exc |-> "DataTransformationError", cause |-> e, rows |-> <<>>]

\* the first record of the batch whose field does not convert to int64
FirstBadInt(batch, field) ==
    CHOOSE i \in 1..Len(batch) :
        /\ ~IntOf(batch[i][field]).ok
        /\ \A j \in 1..(i - 1) : IntOf(batch[j][field]).ok

\* the row of the typed table for one record, every conversion having succeeded
TypedRow(nfe) ==
    [id |-> IntOf(nfe.id).n,
     numero |-> IntOf(nfe.numero).n,
     valorNotaFiscal |-> AmountToFloat(nfe.valorNotaFiscal).value,
     dataEmissao |-> ToDatetime(nfe.dataEmissao),
     dataTipoEventoMaisRecente |-> ToDatetimeEvent(nfe.dataTipoEventoMaisRecente),
     ano |-> DtYear(ToDatetime(nfe.dataEmissao)),
     mes |-> DtMonth(ToDatetime(nfe.dataEmissao))]

\* a variant that leaves out the records that do not convert
prepare_dataframe_skipRows(batch) ==
    TransformReturns(
        [i \in 1..Len(SelectSeq(batch, LAMBDA nfe :
                         /\ AmountToFloat(nfe.valorNotaFiscal).ok
                         /\ IntOf(nfe.id).ok /\ IntOf(nfe.numero).ok)) |->
            TypedRow(SelectSeq(batch, LAMBDA nfe :
                         /\ AmountToFloat(nfe.valorNotaFiscal).ok
                         /\ IntOf(nfe.id).ok /\ IntOf(nfe.numero).ok)[i])])

\* prepare_dataframe(all_nfe): the columns are converted one after the other,
\* valorNotaFiscal first, the dates next, then astype of id and numero
prepare_dataframe(batch) ==
    IF batch = <<>> THEN TransformReturns(<<>>)
    ELSE IF \E i \in 1..Len(batch) : ~AmountToFloat(batch[i].valorNotaFiscal).ok
    THEN TransformFails("ValueError")
    ELSE IF \E i \in 1..Len(batch) : ~IntOf(batch[i].id).ok
    THEN TransformFails(IntOf(batch[FirstBadInt(batch, "id")].id).exc)
    ELSE IF \E i \in 1..Len(batch) : ~IntOf(batch[i].numero).ok
    THEN TransformFails(IntOf(batch[FirstBadInt(batch, "numero")].numero).exc)
    ELSE TransformReturns([i \in 1..Len(batch) |-> TypedRow(batch[i])])

TransformCall ==
    /\ t_pc = "ready"
    /\ t_result' = prepare_dataframe(t_all_nfe)
    /\ t_pc' = "done"
    /\ UNCHANGED t_all_nfe
    /\ UNCHANGED notTransform

TransformIdle ==
    /\ t_pc = "idle"
    /\ t_all_nfe = <<>>
    /\ t_result = TransformPending

PipelineIdle ==
    /\ p_pc = "idle"
    /\ p_log = <<>>

ExtractIdle ==
    /\ api_url = None
    /\ api_key = None
    /\ year_emission = 0
    /\ max_pages = 0
    /\ pc = "idle"
    /\ page_number = 0
    /\ attempt_number = 0
    /\ api_response = <<>>
    /\ all_nfe = <<>>
    /\ result = Running
    /\ calls = <<>>
    /\ waited = 0
    /\ log = <<>>

FilterIdle ==
    /\ f_pc = "idle"
    /\ f_response = <<>>
    /\ f_year = 0
    /\ f_result = [raised |-> FALSE, value |-> <<>>]

\* all_nfe = []; page_number = 1; logger.info(...)
InitExtract ==
    /\ api_url \in EnvValues(UrlStr)
    /\ api_key \in EnvValues(KeyStr)
    /\ year_emission \in ExtractYears
    /\ max_pages \in 0..MaxPagesBound
    /\ pc = "loop"
    /\ page_number = 1
    /\ attempt_number = 0
    /\ api_response = <<>>
    /\ all_nfe = <<>>
    /\ result = Running
    /\ calls = <<>>
    /\ waited = 0
    /\ log = <<"info: start">>

Init == InitExtract /\ FilterIdle /\ LoadIdle /\ ConcIdle /\ TransformIdle /\ PipelineIdle

Next ==
    \/ PageLimitReached
    \/ BeginRequest
    \/ AttemptConfigError
    \/ AttemptTransportError
    \/ AttemptOtherError
    \/ AttemptSuccess
    \/ ProcessEmptyPage
    \/ ProcessPageFilterRaises
    \/ ProcessPageOk

Spec == Init /\ [][Next]_vars

\* the year run_pipeline asks for
PipelineYear == 2024

\* get_nfe_data as run_pipeline calls it; it is a sequential loop: while it has
\* a step to take, it takes one
InitFair == Init /\ year_emission = PipelineYear

SpecFair == InitFair /\ [][Next]_vars /\ WF_vars(Next)

(***************************************************************************)
(* filter_nfe_per_year applied to every page of at most MaxPageLen records *)
(***************************************************************************)
InitFilter ==
    /\ ExtractIdle
    /\ LoadIdle
    /\ ConcIdle
    /\ TransformIdle
    /\ PipelineIdle
    /\ f_pc = "ready"
    /\ f_response \in SeqsUpTo(NfeRecords, MaxPageLen)
    /\ f_year \in Years
    /\ f_result = [raised |-> FALSE, value |-> <<>>]

FilterCall ==
    /\ f_pc = "ready"
    /\ f_result' = filter_nfe_per_year(f_response, f_year)
    /\ f_pc' = "done"
    /\ UNCHANGED <<f_response, f_year>>
    /\ UNCHANGED notFilter

NextFilter == FilterCall

SpecFilter == InitFilter /\ [][NextFilter]_vars

(***************************************************************************)
(* Successive calls of save_parquet_partitioned against a storage that     *)
(* earlier runs may have populated.                                        *)
(***************************************************************************)
\* a storage in which earlier runs left partitions (2024, 6) and (2024, 7)
\* of PathA present or not
InitialStores ==
    {[d \in Dirs |-> IF d \in P THEN [exists |-> TRUE, rows |-> OldRows(d[2])]
                     ELSE AbsentDir] :
        P \in SUBSET {PartitionPath(PathA, <<2024, 6>>), PartitionPath(PathA, <<2024, 7>>)}}

InitLoad ==
    /\ ExtractIdle
    /\ FilterIdle
    /\ ConcIdle
    /\ TransformIdle
    /\ PipelineIdle
    /\ s3_env \in {None, PathB}
    /\ store \in InitialStores
    /\ l_pc = "idle"
    /\ l_df = <<>>
    /\ l_arg = None
    /\ l_base = None
    /\ l_todo = <<>>
    /\ l_checked = <<>>
    /\ l_deleted = <<>>
    /\ l_writes = 0
    /\ l_failed = "none"
    /\ l_result = Running
    /\ l_log = <<>>
    /\ l_before = store
    /\ l_prev = NoCall
    /\ l_ncalls = 0

NextLoad ==
    \/ LoadMissingPath
    \/ LoadEmptyTable
    \/ LoadBegin
    \/ LoadFileSystemFails
    \/ LoadCleanPartition
    \/ LoadSkipPartition
    \/ LoadIsDirFails
    \/ LoadDeleteFails
    \/ LoadWrite
    \/ LoadWriteFails

SpecLoad == InitLoad /\ [][NextLoad]_vars

InitConcurrent ==
    /\ ExtractIdle
    /\ FilterIdle
    /\ LoadIdle
    /\ TransformIdle
    /\ PipelineIdle
    /\ c_store \in InitialStores
    /\ c_w = [w \in Writers |-> WriterIdle]
    /\ c_trace = <<>>

NextConcurrent ==
    \E w \in Writers :
        \/ ConcBegin(w)
        \/ ConcIsDir(w)
        \/ ConcDelete(w)
        \/ ConcWrite(w)

SpecConcurrent == InitConcurrent /\ [][NextConcurrent]_vars

(***************************************************************************)
(* prepare_dataframe applied to every batch of at most MaxBatchLen records *)
(***************************************************************************)
InitTransform ==
    /\ ExtractIdle
    /\ FilterIdle
    /\ LoadIdle
    /\ ConcIdle
    /\ PipelineIdle
    /\ t_pc = "ready"
    /\ \/ t_all_nfe = <<>>
       \/ \E r \in TransformRecords(MaxAmountLen), f \in Companions(MaxBatchLen) :
             \E i \in 1..(Len(f) + 1) : t_all_nfe = InsertAt(f, i, r)
    /\ t_result = TransformPending

NextTransform == TransformCall

SpecTransform == InitTransform /\ [][NextTransform]_vars

(***************************************************************************)
(* run_pipeline: get_nfe_data, then prepare_dataframe, then                *)
(* save_parquet_partitioned, each called when the one before has returned, *)
(* and the except clauses that end the run.                                *)
(***************************************************************************)
\* max_pages: int = 400, which get_nfe_data uses when run_pipeline calls it
DefaultMaxPages == 400

\* the pages a run is followed for: the cap acts the same way at any value
MaxPipelinePages == 2

PipelineMaxPages ==
    IF DefaultMaxPages < MaxPipelinePages THEN DefaultMaxPages ELSE MaxPipelinePages

\* class X(Exception): every error class of the three stages derives from
\* Exception directly
Bases(cls) == {cls, "Exception"}

\* the except clauses of run_pipeline, tried in the order they are written;
\* the record each of them logs
Handler(exc) ==
    IF "APIConfigurationError" \in Bases(exc) THEN "error: api configuration"
    ELSE IF "DataTransformationError" \in Bases(exc) THEN "error: transformation"
    ELSE IF "MissingS3PathError" \in Bases(exc) THEN "error: s3 path configuration"
    ELSE IF "LoadError" \in Bases(exc) THEN "error: load to s3"
    ELSE "exception: unexpected"

\* a variant in which nothing counts as no data
NoData_never(nfe_data) == FALSE

\* if not nfe_data:
NoData(nfe_data) == nfe_data = <<>>

\* the amounts the API may have sent with the records of a run
PipelineAmounts == {valor_fixture, invalid_value}

\* the record of the API of which the extractor model keeps the id and the
\* issuance date
ApiRecord(nfe, valor) ==
    NfeRecord(PyInt(nfe.id), PyInt(100), valor, nfe.dataEmissao, <<16, 6, 2024, 10, 30, 0>>)

ApiBatch(nfe_data, valor) == [i \in 1..Len(nfe_data) |-> ApiRecord(nfe_data[i], valor)]

\* the table as the loader model reads it: id and the two partition columns
LoaderTable(rows) == [i \in 1..Len(rows) |-> Row(rows[i].id, rows[i].ano, rows[i].mes)]

\* the storage before the run: under PathB, partition (2024, 6) holds rows of
\* an earlier run, and partition (2024, 12) may
PipelineStores ==
    {[d \in Dirs |-> IF d \in P \cup {PartitionPath(PathB, <<2024, 6>>)}
                     THEN [exists |-> TRUE, rows |-> OldRows(d[2])]
                     ELSE AbsentDir] :
        P \in SUBSET {PartitionPath(PathB, <<2024, 12>>)}}

\* organ_code = "36000"; year_emission = 2024; logger.info(...);
\* extract.get_nfe_data(organ_code=..., year_emission=...) has been entered
InitPipeline ==
    /\ InitExtract
    /\ year_emission = PipelineYear
    /\ max_pages = PipelineMaxPages
    /\ FilterIdle
    /\ ConcIdle
    /\ TransformIdle
    /\ s3_env \in {None, PathB}
    /\ store \in PipelineStores
    /\ l_pc = "idle"
    /\ l_df = <<>>
    /\ l_arg = None
    /\ l_base = None
    /\ l_todo = <<>>
    /\ l_checked = <<>>
    /\ l_deleted = <<>>
    /\ l_writes = 0
    /\ l_failed = "none"
    /\ l_result = Running
    /\ l_log = <<>>
    /\ l_before = store
    /\ l_prev = NoCall
    /\ l_ncalls = 0
    /\ p_pc = "extract"
    /\ p_log = <<"info: start">>

\* get_nfe_data returned nothing (logger.warning; return), or raised and an
\* except clause logged it
PipeExtractStops ==
    /\ p_pc = "extract"
    /\ pc = "done"
    /\ result.status = "raised" \/ NoData(result.value)
    /\ p_log' = Append(p_log, IF result.status = "raised" THEN Handler(result.exc)
                              ELSE "warning: no nfe found")
    /\ p_pc' = "done"
    /\ UNCHANGED <<extractVars, filterVars, loadVars, concVars, transformVars>>

\* df = transform.prepare_dataframe(all_nfe=nfe_data) raises
PipeTransformFails ==
    /\ p_pc = "extract"
    /\ pc = "done"
    /\ result.status = "returned"
    /\ ~NoData(result.value)
    /\ \E valor \in PipelineAmounts :
          LET df == prepare_dataframe(ApiBatch(result.value, valor))
          IN /\ df.status = "raised"
             /\ t_all_nfe' = ApiBatch(result.value, valor)
             /\ t_result' = df
             /\ p_log' = Append(p_log, Handler(df.exc))
    /\ t_pc' = "done"
    /\ p_pc' = "done"
    /\ UNCHANGED <<extractVars, filterVars, loadVars, concVars>>

\* df = transform.prepare_dataframe(all_nfe=nfe_data) returns; if df.empty:
\* logger.warning; return
PipeTransformReturns ==
    /\ p_pc = "extract"
    /\ pc = "done"
    /\ result.status = "returned"
    /\ ~NoData(result.value)
    /\ \E valor \in PipelineAmounts :
          LET df == prepare_dataframe(ApiBatch(result.value, valor))
          IN /\ df.status = "returned"
             /\ t_all_nfe' = ApiBatch(result.value, valor)
             /\ t_result' = df
             /\ IF IsEmptyDf(df.rows)
                THEN /\ p_log' = Append(p_log, "warning: empty table")
                     /\ p_pc' = "done"
                ELSE /\ p_log' = p_log
                     /\ p_pc' = "load"
    /\ t_pc' = "done"
    /\ UNCHANGED <<extractVars, filterVars, loadVars, concVars>>

\* load.save_parquet_partitioned(df=df): s3_base_path is left to its default
PipeLoadMissingPath ==
    /\ p_pc = "load"
    /\ l_pc = "idle"
    /\ MissingPathExit(LoaderTable(t_result.rows), None)

PipeLoadBegin ==
    /\ p_pc = "load"
    /\ l_pc = "idle"
    /\ BeginPartitions(LoaderTable(t_result.rows), None)

PipeLoadFileSystemFails ==
    /\ p_pc = "load"
    /\ l_pc = "idle"
    /\ FileSystemFails(LoaderTable(t_result.rows), None)

\* logger.info("Pipeline concluído com sucesso.")
PipeSucceeds ==
    /\ p_pc = "load"
    /\ l_pc = "returned"
    /\ p_log' = Append(p_log, "info: pipeline succeeded")
    /\ p_pc' = "done"
    /\ UNCHANGED <<extractVars, filterVars, loadVars, concVars, transformVars>>

\* save_parquet_partitioned raised: the first except clause that matches logs
PipeLoadRaises ==
    /\ p_pc = "load"
    /\ l_pc = "raised"
    /\ p_log' = Append(p_log, Handler(l_result.exc))
    /\ p_pc' = "done"
    /\ UNCHANGED <<extractVars, filterVars, loadVars, concVars, transformVars>>

NextPipeline ==
    \/ PageLimitReached
    \/ BeginRequest
    \/ AttemptConfigError
    \/ AttemptTransportError
    \/ AttemptOtherError
    \/ AttemptSuccess
    \/ ProcessEmptyPage
    \/ ProcessPageFilterRaises
    \/ ProcessPageOk
    \/ PipeExtractStops
    \/ PipeTransformFails
    \/ PipeTransformReturns
    \/ PipeLoadMissingPath
    \/ PipeLoadBegin
    \/ PipeLoadFileSystemFails
    \/ LoadCleanPartition
    \/ LoadSkipPartition
    \/ LoadIsDirFails
    \/ LoadDeleteFails
    \/ LoadWrite
    \/ LoadWriteFails
    \/ PipeSucceeds
    \/ PipeLoadRaises

SpecPipeline == InitPipeline /\ [][NextPipeline]_vars

(***************************************************************************)
(* Properties.                                                             *)
(***************************************************************************)
\* the record carries an issuance date that parses and falls in year y
IssuedIn(nfe, y) ==
    /\ "dataEmissao" \in DOMAIN nfe
    /\ Strptime(nfe.dataEmissao).ok
    /\ Strptime(nfe.dataEmissao).year = y

\* the records of a page issued in year y, in the page's order
SelectYear(page, y) == SelectSeq(page, LAMBDA nfe : IssuedIn(nfe, y))

\* a record whose issuance date is present and does not parse
Malformed(nfe) == "dataEmissao" \in DOMAIN nfe /\ ~Strptime(nfe.dataEmissao).ok

HasMalformed(page) == \E k \in 1..Len(page) : Malformed(page[k])

\* the records of year_emission in the responses of the first n page requests
RECURSIVE CollectedUpTo(_)
CollectedUpTo(n) ==
    IF n = 0 THEN <<>>
    ELSE CollectedUpTo(n - 1) \o SelectYear(calls[n].response, year_emission)

\* request i has returned and get_nfe_data is done with its page
Processed(i) == calls[i].outcome = "ok" /\ (i < Len(calls) \/ pc # "process")

\* an environment value that is unset, empty or blank
NotConfigured(v) == v \in {None, EmptyStr, BlankStr}

FailedTerminally(c) == c.outcome \notin {"pending", "ok"}

\* C1: a page request whose every attempt fails with a RequestException makes
\* exactly 3 attempts (3 network requests), never a 4th, and then ends in
\* RetryError whose last attempt carries the RequestException.
C1_RetryExhaustedAfterThree ==
    \A i \in 1..Len(calls) :
        LET c == calls[i]
        IN /\ c.attempts <= 3
           /\ c.failures >= 3 => c.outcome = "RetryError"
           /\ (c.outcome # "pending" /\ c.attempts > 0 /\ c.failures = c.attempts)
                 => /\ c.attempts = 3
                    /\ c.requests = 3
                    /\ c.outcome = "RetryError"
                    /\ c.exc \in RequestExceptions
           /\ c.outcome = "RetryError" => c.failures = 3 /\ c.attempts = 3

C1_Witness ==
    \E i \in 1..Len(calls) :
        calls[i].outcome = "RetryError" /\ calls[i].attempts = 3 /\ pc = "done"

\* C2: a page whose attempts are k = 0, 1 or 2 transient failures followed by
\* a success, with a page of records as its response, has its records of the
\* requested year appended exactly once and extraction goes on to the next page.
C2_SuccessAppendsAndContinues ==
    \A i \in 1..Len(calls) :
        (Processed(i) /\ calls[i].response # <<>> /\ calls[i].failures \in 0..2)
           => /\ calls[i].page = i
              /\ IF i = Len(calls)
                 THEN /\ all_nfe = CollectedUpTo(i)
                      /\ page_number = i + 1
                      /\ pc = "loop" \/ (pc = "done" /\ i = max_pages)
                 ELSE calls[i + 1].page = i + 1

\* C3: a page request that returns an empty array ends the extraction: it is
\* the last request made, no page above it is requested, and the result is the
\* records of the requested year of the pages before it.
C3_EmptyPageStops ==
    \A i \in 1..Len(calls) :
        (calls[i].outcome = "ok" /\ calls[i].response = <<>>)
           => /\ i = Len(calls)
              /\ \A j \in 1..Len(calls) : calls[j].page = j
              /\ pc \in {"process", "done"}
              /\ pc = "done" => result = Returned(CollectedUpTo(i - 1))

C3_Witness ==
    /\ pc = "done"
    /\ Len(calls) = 3
    /\ calls[3].outcome = "ok" /\ calls[3].response = <<>>
    /\ calls[1].response = mixed_nfe /\ calls[2].response = nfe_2024
    /\ year_emission = 2025
    /\ result = Returned(nfe_2025)

\* C4: no page above max_pages is requested, and when every fetch succeeds with
\* a non-empty page exactly max_pages fetches are made and the result is the
\* records of the requested year of those pages.
C4_ExactlyMaxPagesFetches ==
    /\ \A i \in 1..Len(calls) : calls[i].page <= max_pages
    /\ (/\ pc = "done"
        /\ \A i \in 1..Len(calls) :
              calls[i].outcome = "ok" /\ calls[i].response # <<>>)
          => /\ Len(calls) = max_pages
             /\ result = Returned(CollectedUpTo(max_pages))

\* C5: when the request for page p fails terminally, get_nfe_data returns
\* without raising, requests no further page, and returns the records of the
\* requested year of pages 1..p-1.
C5_TerminalFailureReturnsPartial ==
    \A i \in 1..Len(calls) :
        FailedTerminally(calls[i])
           => /\ i = Len(calls)
              /\ calls[i].page = i
              /\ pc = "done"
              /\ result = Returned(CollectedUpTo(i - 1))

C5_Witness ==
    /\ pc = "done"
    /\ Len(calls) = 2
    /\ calls[1].response = nfe_2025
    /\ calls[2].outcome = "Exception"
    /\ year_emission = 2025
    /\ result = Returned(nfe_2025)

\* C6: for every page and year, filter_nfe_per_year returns the records of the
\* page issued in that year, in order; records without dataEmissao are left out.
C6_FilterReturnsYearSubsequence ==
    f_pc = "done"
       => /\ ~f_result.raised
          /\ f_result.value = SelectYear(f_response, f_year)

\* C7: a record whose issuance date is present but does not parse is dropped
\* without error: the page's other records of the requested year are collected
\* and extraction goes on as if the record were absent.
C7_MalformedDateDropped ==
    \A i \in 1..Len(calls) :
        (Processed(i) /\ HasMalformed(calls[i].response))
           => /\ "error: page request" \notin {log[k] : k \in 1..Len(log)}
              /\ i = Len(calls) =>
                    /\ all_nfe = CollectedUpTo(i)
                    /\ page_number = i + 1

\* C8: with the API URL or credential unset, empty or blank, an extraction
\* makes no network request and ends in a configuration error, not in a
\* normal (empty) result.
C8_BlankConfigRaises ==
    (max_pages >= 1 /\ (NotConfigured(api_url) \/ NotConfigured(api_key)))
       => /\ \A i \in 1..Len(calls) : calls[i].requests = 0
          /\ pc = "done"
                => /\ result.status = "raised"
                   /\ result.exc = "MissingAPIConfigError"

\* the paths a sequence of storage calls named
PathSet(paths) == {paths[j] : j \in 1..Len(paths)}

NoRepeat(paths) ==
    \A i, j \in 1..Len(paths) : paths[i] = paths[j] => i = j

\* this call repeats the call before it, and both returned normally
RepeatsPreviousCall ==
    /\ l_pc = "returned"
    /\ l_df # <<>>
    /\ l_prev.result.status = "returned"
    /\ l_prev.df = l_df
    /\ l_prev.base = l_base

AllRowsKeyed(df) == \A j \in 1..Len(df) : ~IsNullKey(KeyOf(df[j]))

\* C9 (as claimed): for every non-empty table, a second call with the same
\* table and path leaves the storage as the first call left it.
C9_SecondCallChangesNothing == RepeatsPreviousCall => store = l_prev.after

\* C9 (amended): for every non-empty table whose rows all have a year and a
\* month, a second call with the same table and path leaves the storage as the
\* first call left it: each partition of the table holds its rows once.
C9_SecondCallChangesNothingKeyed ==
    (RepeatsPreviousCall /\ AllRowsKeyed(l_df))
       => /\ store = l_prev.after
          /\ \A k \in KeySet(l_df) :
                store[PartitionPath(l_base, k)].rows = RowsOfKey(l_df, k)

C9_Witness ==
    /\ RepeatsPreviousCall
    /\ l_df = df_two
    /\ l_base = PathA
    /\ Len(l_deleted) = 2
    /\ store[PartitionPath(PathA, <<2024, 6>>)].rows = <<Row(1, 2024, 6), Row(3, 2024, 6)>>

\* the partitions of the table, keyed, whose directory existed when the call began
ExistingPartitions ==
    {PartitionPath(l_base, k) :
        k \in {kk \in KeySet(l_df) :
                 ~IsNullKey(kk) /\ l_before[PartitionPath(l_base, kk)].exists}}

\* C10: in one call, delete-contents is invoked at most once per path, only
\* for (year, month) pairs of the table whose directory already exists, and,
\* once the loop is through, for every such pair; never for a null year or month.
C10_DeletesExactlyExistingPartitions ==
    IF l_base \in BasePaths
    THEN /\ NoRepeat(l_deleted)
         /\ PathSet(l_deleted) \subseteq ExistingPartitions
         /\ \A j \in 1..Len(l_deleted) : ~IsNullKey(l_deleted[j][2])
         /\ l_writes > 0 => PathSet(l_deleted) = ExistingPartitions
    ELSE l_deleted = <<>>

C10_Witness ==
    /\ l_pc = "returned"
    /\ l_df = df_two
    /\ l_before[PartitionPath(PathA, <<2024, 6>>)].exists
    /\ ~l_before[PartitionPath(PathA, <<2024, 7>>)].exists
    /\ l_deleted = <<PartitionPath(PathA, <<2024, 6>>)>>
    /\ l_writes = 1

\* the partitions whose delete_dir_contents had returned when the call failed
CleanedBeforeFailure ==
    IF l_failed = "delete_dir_contents"
    THEN PathSet(SubSeq(l_deleted, 1, Len(l_deleted) - 1))
    ELSE PathSet(l_deleted)

\* the failure of a storage operation reaches the caller as LoadError, and a
\* failed delete_dir_contents is followed by no write_dataset
ReportedAsLoadError ==
    /\ l_pc = "raised"
    /\ l_result = Raised("LoadError")
    /\ l_log # <<>> /\ l_log[Len(l_log)] = "error: load"
    /\ l_failed \in {"S3FileSystem", "isdir", "delete_dir_contents"} => l_writes = 0

\* C11 (as claimed): a failure of isdir, delete_dir_contents or write_dataset
\* is reported as LoadError, every partition emptied before the failure is
\* empty afterwards, and no write follows a failed delete.
C11_FailureLeavesDeletedEmpty ==
    l_failed # "none"
       => /\ ReportedAsLoadError
          /\ \A path \in CleanedBeforeFailure : store[path].rows = <<>>

\* C11 (amended): a failure of isdir, delete_dir_contents or write_dataset is
\* reported as LoadError and nothing is rolled back: a partition emptied before
\* the failure stays empty when the failure is in isdir or delete_dir_contents
\* (no write follows), and after a failed write_dataset it is empty or holds
\* only the rows of this table that the write stored before failing.
C11_FailureNoRollback ==
    l_failed # "none"
       => /\ ReportedAsLoadError
          /\ \A path \in CleanedBeforeFailure :
                /\ store[path].exists
                /\ IF l_failed = "write_dataset"
                   THEN store[path].rows \in {<<>>, RowsOfKey(l_df, path[2])}
                   ELSE store[path].rows = <<>>

C11_Witness ==
    /\ l_failed = "write_dataset"
    /\ l_result = Raised("LoadError")
    /\ l_df = df_two
    /\ l_deleted = <<PartitionPath(PathA, <<2024, 6>>)>>
    /\ l_before[PartitionPath(PathA, <<2024, 6>>)].rows = OldRows(<<2024, 6>>)
    /\ store[PartitionPath(PathA, <<2024, 6>>)].rows = <<>>
    /\ store[PartitionPath(PathA, <<2024, 7>>)].rows = <<Row(2, 2024, 7)>>

\* this call has made no call of the storage and the storage is as it found it
NoStorageOperation ==
    /\ l_failed = "none"
    /\ l_checked = <<>>
    /\ l_deleted = <<>>
    /\ l_writes = 0
    /\ store = l_before

C14_BlankPathExitsProcess ==
    (l_pc # "idle" /\ l_arg = BlankStr)
       => /\ l_log = <<"error: s3_base_path">>
          /\ l_result.status = "raised"
          /\ l_result.exc = "SystemExit"

\* C15: a call with a table of zero rows and a valid base path returns without
\* error and makes no isdir, no delete_dir_contents and no write_dataset call:
\* the storage is unchanged.
C15_EmptyTableIsNoOp ==
    (l_pc # "idle" /\ l_df = df_empty /\ ~MissingOrBlank(l_base))
       => /\ l_pc = "returned"
          /\ l_result = Returned(<<>>)
          /\ NoStorageOperation

C15_Witness ==
    /\ l_pc = "returned"
    /\ l_df = df_empty
    /\ l_base = PathA
    /\ l_ncalls = 2
    /\ l_prev.df = df_two
    /\ l_prev.base = PathA
    /\ store[PartitionPath(PathA, <<2024, 6>>)].rows = RowsOfKey(df_two, <<2024, 6>>)
    /\ store = l_before

\* the position in c_trace of the step of call w that made operation op first
\* (0 when it has made none) and last
FirstStep(w, op) ==
    IF \E i \in 1..Len(c_trace) : c_trace[i] = <<w, op>>
    THEN CHOOSE i \in 1..Len(c_trace) :
            /\ c_trace[i] = <<w, op>>
            /\ \A j \in 1..(i - 1) : c_trace[j] # <<w, op>>
    ELSE 0

LastLoopStep(w) ==
    CHOOSE i \in 1..Len(c_trace) :
        /\ c_trace[i][1] = w /\ c_trace[i][2] # "write_dataset"
        /\ \A j \in (i + 1)..Len(c_trace) :
              c_trace[j][1] = w => c_trace[j][2] = "write_dataset"

\* both calls have returned, on the same base path
BothReturned ==
    /\ \A w \in Writers : c_w[w].pc = "returned"
    /\ c_w[1].base = c_w[2].base

\* the (ano, mes) partitions that both tables have rows for and the loop purges
Overlap == {k \in KeySet(c_w[1].df) \cap KeySet(c_w[2].df) : ~IsNullKey(k)}

\* call a returned before call b began
Sequential(a, b) == FirstStep(a, "write_dataset") < FirstStep(b, "begin")

\* each call was through its loop before the other wrote
DeletesBeforeWrites ==
    /\ LastLoopStep(1) < FirstStep(2, "write_dataset")
    /\ LastLoopStep(2) < FirstStep(1, "write_dataset")

\* C12: two calls on the same base path with an overlapping (ano, mes)
\* partition: run one after the other, the partition ends with the rows of the
\* later call only; interleaved so that both are through their delete step
\* before either writes, it ends with the rows of both, which neither
\* sequential order produces.
C12_InterleavedCallsKeepBothRows ==
    BothReturned =>
        \A k \in Overlap :
            LET rows == c_store[PartitionPath(c_w[1].base, k)].rows
                rows1 == RowsOfKey(c_w[1].df, k)
                rows2 == RowsOfKey(c_w[2].df, k)
            IN /\ Sequential(1, 2) => rows = rows2
               /\ Sequential(2, 1) => rows = rows1
               /\ DeletesBeforeWrites
                     => /\ rows \in {rows1 \o rows2, rows2 \o rows1}
                        /\ rows \notin {rows1, rows2}

C12_Witness ==
    /\ BothReturned
    /\ DeletesBeforeWrites
    /\ c_w[1].df = df_one /\ c_w[2].df = df_two /\ c_w[1].base = PathA
    /\ \E i, j \in 1..Len(c_trace) :
          /\ c_trace[i] = <<1, "delete_dir_contents">>
          /\ c_trace[j] = <<2, "delete_dir_contents">>
    /\ c_store[PartitionPath(PathA, <<2024, 6>>)].rows
          = <<Row(1, 2024, 6), Row(1, 2024, 6), Row(3, 2024, 6)>>

\* the text before the "," of an amount (all of it when it has none), and after
IntegerPart(text) ==
    IF \E i \in 1..Len(text) : text[i] = ","
    THEN SubSeq(text, 1, (CHOOSE i \in 1..Len(text) : text[i] = ",") - 1)
    ELSE text

Decimals(text) ==
    LET c == CHOOSE i \in 1..Len(text) : text[i] = ","
    IN IF c = Len(text) THEN <<>> ELSE SubSeq(text, c + 1, Len(text))

OneComma(text) == Cardinality({i \in 1..Len(text) : text[i] = ","}) = 1
NoComma(text) == \A i \in 1..Len(text) : text[i] # ","

\* digits in groups of three from the right, "." between the groups
GroupedThousands(b) ==
    /\ Len(b) % 4 # 0
    /\ \A i \in 1..Len(b) :
          IF (Len(b) - i + 1) % 4 = 0 THEN b[i] = "." ELSE IsDigit(b[i])

\* an amount of the locale: the integer part plain or grouped by ".", and,
\* after ",", decimals if any
OfLocaleShape(text) ==
    /\ IntegerPart(text) # <<>>
    /\ AllDigits(IntegerPart(text)) \/ GroupedThousands(IntegerPart(text))
    /\ \/ NoComma(text)
       \/ OneComma(text) /\ Decimals(text) # <<>> /\ AllDigits(Decimals(text))

\* non-empty groups of digits separated by ".", then "," and decimals
DigitGroupsThenDecimals(text) ==
    /\ OneComma(text)
    /\ Decimals(text) # <<>> /\ AllDigits(Decimals(text))
    /\ LET b == IntegerPart(text)
       IN /\ b # <<>>
          /\ IsDigit(b[1]) /\ IsDigit(b[Len(b)])
          /\ \A i \in 1..Len(b) : IsDigit(b[i]) \/ b[i] = "."
          /\ \A i \in 1..(Len(b) - 1) : ~(b[i] = "." /\ b[i + 1] = ".")

\* the number read off such a text: its digits, the decimals after the point
LocaleValue(text) ==
    Dec(DigitsToNat(SelectSeq(IntegerPart(text), IsDigit) \o Decimals(text)),
        Len(Decimals(text)))

IntsConvert(nfe) == IntOf(nfe.id).ok /\ IntOf(nfe.numero).ok

TransformDone == t_pc = "done"

\* C16: a batch with an amount text that is not of the locale shape (not
\* numeric, or with "." for the decimal point as in "1234.56") makes
\* prepare_dataframe fail: no such text is converted to a number.
C16_NonLocaleAmountFailsBatch ==
    TransformDone
       => \A i \in 1..Len(t_all_nfe) :
             ~OfLocaleShape(t_all_nfe[i].valorNotaFiscal)
                => /\ t_result.status = "raised"
                   /\ t_result.exc = "DataTransformationError"

\* C17: an amount text of digit groups separated by ".", then "," and
\* decimals, never fails the batch and becomes the number read by dropping
\* every "." and taking "," for the decimal point ("1.234,56" gives 1234.56).
C17_LocaleAmountBecomesNumber ==
    TransformDone
       => /\ t_result.status = "returned"
             => \A i \in 1..Len(t_all_nfe) :
                   DigitGroupsThenDecimals(t_all_nfe[i].valorNotaFiscal)
                      => t_result.rows[i].valorNotaFiscal
                            = LocaleValue(t_all_nfe[i].valorNotaFiscal)
          /\ (\A i \in 1..Len(t_all_nfe) :
                 /\ DigitGroupsThenDecimals(t_all_nfe[i].valorNotaFiscal)
                 /\ IntsConvert(t_all_nfe[i]))
                => t_result.status = "returned"

C17_Witness ==
    /\ TransformDone
    /\ t_all_nfe = <<mock_nfe_data, [mock_nfe_data EXCEPT !.valorNotaFiscal = valor_millions]>>
    /\ t_result.status = "returned"
    /\ t_result.rows[1].valorNotaFiscal = [num |-> 123456, scale |-> 2]
    /\ t_result.rows[2].valorNotaFiscal = [num |-> 123456789, scale |-> 2]

\* C18: a row whose issuance date does not parse is kept, with a null
\* timestamp, year and month; a row whose issuance date parses has that date's
\* year and month; an event date that does not parse becomes a null timestamp;
\* no date makes the batch fail.
C18_UnparseableDatesBecomeNull ==
    TransformDone
       => /\ t_result.status = "returned"
             => /\ Len(t_result.rows) = Len(t_all_nfe)
                /\ \A i \in 1..Len(t_all_nfe) :
                      LET row == t_result.rows[i]
                          date == Strptime(t_all_nfe[i].dataEmissao)
                      IN /\ IF date.ok
                            THEN /\ ~row.dataEmissao.nat
                                 /\ row.ano = date.year /\ row.mes = date.month
                            ELSE /\ row.dataEmissao = NaT
                                 /\ row.ano = NaN /\ row.mes = NaN
                         /\ ~ParsesAsEvent(t_all_nfe[i].dataTipoEventoMaisRecente)
                               => row.dataTipoEventoMaisRecente = NaT
          /\ t_result.status = "raised"
                => \E i \in 1..Len(t_all_nfe) :
                      \/ ~AmountToFloat(t_all_nfe[i].valorNotaFiscal).ok
                      \/ ~IntsConvert(t_all_nfe[i])

C18_Witness ==
    /\ TransformDone
    /\ t_all_nfe = <<[mock_nfe_data EXCEPT !.dataEmissao = <<99, 99, 9999>>,
                                           !.dataTipoEventoMaisRecente = <<99, 99, 9999, 99, 99, 99>>],
                     mock_nfe_data>>
    /\ t_result.status = "returned"
    /\ t_result.rows[1].dataEmissao = NaT
    /\ t_result.rows[1].dataTipoEventoMaisRecente = NaT
    /\ t_result.rows[1].ano = NaN /\ t_result.rows[1].mes = NaN
    /\ t_result.rows[2].ano = 2024 /\ t_result.rows[2].mes = 6

C20_InvalidAmountRaisesValueError ==
    (TransformDone /\ \E i \in 1..Len(t_all_nfe) : t_all_nfe[i].valorNotaFiscal = invalid_value)
       => /\ t_result.status = "raised"
          /\ IsInstance(t_result.exc, "ValueError")

\* the attempts of the first n page requests that tenacity followed by a wait
RECURSIVE RetriedUpTo(_)
RetriedUpTo(n) ==
    IF n = 0 THEN 0
    ELSE RetriedUpTo(n - 1) + calls[n].failures
            - (IF calls[n].outcome = "RetryError" THEN 1 ELSE 0)

\* the network requests of the first n page requests
RECURSIVE RequestsUpTo(_)
RequestsUpTo(n) == IF n = 0 THEN 0 ELSE RequestsUpTo(n - 1) + calls[n].requests

\* an exception of request_nfe that is no RequestException
NonTransport(exc) == exc \in {"MissingAPIConfigError", "Exception"}

C25_PagesConsecutive ==
    \A i \in 1..Len(calls) :
        /\ calls[i].page = i
        /\ i < Len(calls)
              => /\ calls[i].outcome = "ok"
                 /\ calls[i].response # <<>>
                 /\ ~filter_nfe_per_year(calls[i].response, year_emission).raised

C25_Witness ==
    /\ Len(calls) = 3
    /\ calls[1].page = 1 /\ calls[2].page = 2 /\ calls[3].page = 3
    /\ calls[1].response = mixed_nfe /\ calls[2].response = nfe_2024
    /\ calls[3].outcome = "pending"

\* C26: whatever the API does, get_nfe_data returns, having made at most
\* max_pages page requests and at most 3 * max_pages network requests.
C26_TerminatesWithinBudget ==
    /\ [](/\ Len(calls) <= max_pages
          /\ RequestsUpTo(Len(calls)) <= 3 * max_pages)
    /\ <>(pc = "done" /\ result.status = "returned")

C26_Witness ==
    /\ pc = "done"
    /\ max_pages = 2
    /\ Len(calls) = max_pages
    /\ RequestsUpTo(Len(calls)) = 3 * max_pages
    /\ calls[1].failures = 2 /\ calls[1].outcome = "ok"
    /\ calls[2].outcome = "RetryError"

\* what a directory of the store must hold after a successful call: what it
\* held before, less the purged contents, plus the rows of the table for it
AfterPurgeAndWrite(d) ==
    IF d[1] # l_base THEN l_before[d]
    ELSE LET new == SelectSeq(l_df, LAMBDA row : <<row.ano, row.mes>> = d[2])
             purged == /\ new # <<>>
                       /\ d[2][1] # NaN /\ d[2][2] # NaN
                       /\ l_before[d].exists
         IN [exists |-> l_before[d].exists \/ new # <<>>,
             rows |-> (IF purged THEN <<>> ELSE l_before[d].rows) \o new]

\* C23: a call that returns normally on a table of some rows has made every
\* isdir and delete_dir_contents call before its one write_dataset call, which
\* stores every row of the table under the base path by (ano, mes); nothing is
\* checked or deleted once the write is made.
C23_ChecksAndDeletesPrecedeOneWrite ==
    /\ l_pc = "partitions" => l_writes = 0
    /\ l_writes <= 1
    /\ (l_pc = "returned" /\ l_df # <<>>)
          => /\ l_writes = 1
             /\ NoRepeat(l_checked)
             /\ PathSet(l_checked)
                   = {PartitionPath(l_base, k) : k \in {kk \in KeySet(l_df) : ~IsNullKey(kk)}}
             /\ \A d \in Dirs : store[d] = AfterPurgeAndWrite(d)

\* between the first delete and the write: a partition that held rows is empty
C23_Witness ==
    /\ l_pc = "partitions"
    /\ l_df = df_two
    /\ l_writes = 0
    /\ l_deleted = <<PartitionPath(PathA, <<2024, 6>>)>>
    /\ l_todo = <<<<2024, 7>>>>
    /\ l_before[PartitionPath(PathA, <<2024, 6>>)].rows = OldRows(<<2024, 6>>)
    /\ store[PartitionPath(PathA, <<2024, 6>>)] = [exists |-> TRUE, rows |-> <<>>]

\* C29: the path is validated before the table is looked at: a call with a
\* missing or blank base path and a table of zero rows ends in
\* MissingS3PathError, not in the no-op return.
C29_PathCheckedBeforeEmptyTable ==
    (l_pc # "idle" /\ MissingOrBlank(l_base) /\ l_df = df_empty)
       => /\ l_pc = "raised"
          /\ l_result = Raised("MissingS3PathError")
          /\ l_log = <<"error: s3_base_path">>

C29_Witness ==
    /\ l_pc = "raised"
    /\ l_df = df_empty
    /\ l_arg = BlankStr
    /\ l_result = Raised("MissingS3PathError")
    /\ l_log = <<"error: s3_base_path">>


\* what run_pipeline logged last
LastRecord == p_log[Len(p_log)]

\* C21: a configuration, a transformation and a load error raised by a stage
\* are each caught by their own except clause of run_pipeline and logged
\* with its message, and no later stage runs
C21_StageErrorsCaughtByOwnHandler ==
    p_pc = "done" =>
        /\ ConfigCheck(api_url, api_key) # "ok" =>
              LastRecord = "error: api configuration" /\ t_pc = "idle" /\ l_pc = "idle"
        /\ t_result.status = "raised" =>
              LastRecord = "error: transformation" /\ l_pc = "idle"
        /\ l_pc = "raised" =>
              LastRecord \in {"error: s3 path configuration", "error: load to s3"}


\* the loader was not called, and the storage is as the run found it
LoaderNotCalled ==
    /\ l_pc = "idle"
    /\ l_ncalls = 0
    /\ NoStorageOperation

\* C22: run_pipeline calls prepare_dataframe only when get_nfe_data has
\* returned, and save_parquet_partitioned only when prepare_dataframe has
\* returned; when the extraction returned no record neither of them is called,
\* when the table is empty the loader is not called, and in both cases the
\* run ends with a warning and no storage operation
C22_StagesInOrderShortCircuit ==
    /\ t_pc = "done" => pc = "done" /\ result.status = "returned"
    /\ l_pc # "idle" => t_pc = "done" /\ t_result.status = "returned"
    /\ pc = "done" /\ result.value = <<>> =>
          /\ t_pc = "idle"
          /\ LoaderNotCalled
          /\ p_pc = "done" => LastRecord = "warning: no nfe found"
    /\ t_pc = "done" /\ IsEmptyDf(t_result.rows) =>
          /\ LoaderNotCalled
          /\ p_pc = "done" => LastRecord \in {"warning: empty table", "error: transformation"}

\* the API answered, no record of the year came, and the run ended on the
\* warning
C22_Witness ==
    /\ p_pc = "done"
    /\ ConfigCheck(api_url, api_key) = "ok"
    /\ Len(calls) = 2
    /\ result.value = <<>>
    /\ LastRecord = "warning: no nfe found"
    /\ t_pc = "idle"
    /\ LoaderNotCalled


\* the record has an issuance date that parses, of the year asked for
IssuedInYear(nfe, year) ==
    /\ "dataEmissao" \in DOMAIN nfe
    /\ Strptime(nfe.dataEmissao).ok
    /\ Strptime(nfe.dataEmissao).year = year

\* a partition of the year asked for, under the base path of the call
PartitionOfYear(path, year) ==
    /\ path[1] = l_base
    /\ path[2][1] = year
    /\ path[2][2] \in 1..12

\* C27: in a run of run_pipeline every record get_nfe_data collects has an
\* issuance date that parses and lies in the requested year, every row given
\* to the loader has ano = the requested year and mes in 1..12, and the
\* loader checks, purges and changes only partitions of that year, at most 12
C27_OnlyRequestedYearPartitions ==
    /\ \A i \in 1..Len(all_nfe) : IssuedInYear(all_nfe[i], year_emission)
    /\ \A i \in 1..Len(result.value) : IssuedInYear(result.value[i], year_emission)
    /\ \A i \in 1..Len(t_result.rows) :
          /\ ~t_result.rows[i].dataEmissao.nat
          /\ t_result.rows[i].ano = year_emission
          /\ t_result.rows[i].mes \in 1..12
    /\ \A i \in 1..Len(l_df) : l_df[i].ano = year_emission /\ l_df[i].mes \in 1..12
    /\ \A i \in 1..Len(l_checked) : PartitionOfYear(l_checked[i], year_emission)
    /\ \A i \in 1..Len(l_deleted) : PartitionOfYear(l_deleted[i], year_emission)
    /\ \A d \in Dirs : store[d] # l_before[d] => PartitionOfYear(d, year_emission)
    /\ Len(l_checked) <= 12
    /\ Cardinality(KeySet(l_df)) <= 12

\* the API sent records of 2025 and of 2024 on one page; the run succeeded
\* having purged and written partition (2024, 12) only
C27_Witness ==
    /\ p_pc = "done"
    /\ LastRecord = "info: pipeline succeeded"
    /\ \E i \in 1..Len(calls) : calls[i].response = mixed_nfe
    /\ l_df # <<>>
    /\ l_deleted = <<PartitionPath(PathB, <<2024, 12>>)>>
    /\ store[PartitionPath(PathB, <<2024, 12>>)].rows = l_df
    /\ store[PartitionPath(PathB, <<2024, 6>>)] = l_before[PartitionPath(PathB, <<2024, 6>>)]


\* get_nfe_data stopped on a page that failed for good, or on the page cap
CutShort ==
    /\ pc = "done"
    /\ \E i \in 1..Len(log) : log[i] \in {"error: page request", "warning: page limit"}

\* the rows of the sequence, as a set
RowSet(rows) == {rows[i] : i \in 1..Len(rows)}

\* C28: a run whose extraction was cut short with at least one record
\* collected calls prepare_dataframe on the partial result and, with the table
\* it returns, save_parquet_partitioned; when that call returns, every
\* (ano, mes) of the partial table has been checked, purged if it was a
\* directory, and holds the partial rows of that key and nothing else: no row
\* stored there before the run is left
C28_CutShortRunReplacesPartitions ==
    CutShort /\ result.value # <<>> /\ p_pc = "done" =>
        /\ t_pc = "done"
        /\ Len(t_all_nfe) = Len(result.value)
        /\ t_result.status = "returned" =>
              /\ l_ncalls = 1
              /\ Len(l_df) = Len(result.value)
        /\ l_pc = "returned" =>
              \A k \in KeySet(l_df) :
                  LET path == PartitionPath(l_base, k)
                  IN /\ \E i \in 1..Len(l_checked) : l_checked[i] = path
                     /\ l_before[path].exists =>
                           \E i \in 1..Len(l_deleted) : l_deleted[i] = path
                     /\ store[path].rows = RowsOfKey(l_df, k)
                     /\ RowSet(l_before[path].rows) \cap RowSet(store[path].rows) = {}

\* page 1 gave a record of December 2024, page 2 failed for good; the run
\* succeeded and the rows partition (2024, 12) held before it are gone
C28_Witness ==
    /\ p_pc = "done"
    /\ LastRecord = "info: pipeline succeeded"
    /\ Len(calls) = 2
    /\ calls[1].outcome = "ok"
    /\ calls[2].outcome \notin {"ok", "pending"}
    /\ l_before[PartitionPath(PathB, <<2024, 12>>)].rows = OldRows(<<2024, 12>>)
    /\ store[PartitionPath(PathB, <<2024, 12>>)].rows = <<Row(3, 2024, 12)>>

====
